---- MODULE Spec2Model ----
(***************************************************************************)
(* nlpy/krylov/linop.py: linear operators (LinearOperator,                 *)
(* SimpleLinearOperator, PysparseLinearOperator, SquaredLinearOperator),   *)
(* their construction, transpose linkage and application.                  *)
(*                                                                         *)
(* The state is the heap of operator instances that client code holds,     *)
(* plus a record of the last constructor call or application.              *)
(***************************************************************************)
EXTENDS Integers, Sequences, FiniteSets, TLC

VARIABLES heap, ncalls, last

vars == <<heap, ncalls, last>>

(* ---------------- bounds of the model ---------------- *)

\* Largest number of constructor calls client code makes.
MaxCalls == 2

\* Longest vector applied to an operator.
MaxLen == 3

\* Depth of nested constructor calls the interpreter allows.
RecursionLimit == 3

(* ---------------- Python values ---------------- *)

\* The value None.
NoneVal == [tag |-> "None", id |-> 0]

\* A reference to the operator instance heap[i].
Ref(i) == [tag |-> "ref", id |-> i]

\* A reference to the externally owned matrix Mat[k].
MatRef(k) == [tag |-> "mat", id |-> k]

\* Some object that is neither None nor a LinearOperator (a string, say).
OtherObj == [tag |-> "obj", id |-> 0]

\* isinstance(v, LinearOperator)
IsLinearOperator(v) == v.tag = "ref"

(* ---------------- external matrices and callables ---------------- *)

\* The matrix-like objects client code owns.  hasMul / hasRmul say whether
\* the object implements __mul__ / __rmul__ (otherwise only matvec and
\* matvec_transp); checks says whether its own __mul__ / __rmul__ rejects a
\* vector of the wrong length.
Mat ==
  << [shape |-> <<2, 3>>, rows |-> << <<1, 1, 0>>, <<0, 1, 1>> >>,
      hasMul |-> FALSE, hasRmul |-> FALSE, checks |-> FALSE],
     [shape |-> <<1, 2>>, rows |-> << <<1, 2>> >>,
      hasMul |-> TRUE, hasRmul |-> TRUE, checks |-> TRUE] >>

\* A callable v -> J*v (tr = FALSE) or u -> u*J (tr = TRUE) over matrix
\* J = Mat[M].  M = 0 stands for "no callable" (None).
Fn(M, tr, checks) == [M |-> M, tr |-> tr, checks |-> checks]

NoFn == Fn(0, FALSE, FALSE)

\* The matvec functions client code passes: v -> J*v, unchecked.
UserFns == { Fn(1, FALSE, FALSE) }

\* The matvec_transp client code passes along with matvec f: none, or
\* u -> u*J over the same matrix.
TranspFns(f) == { NoFn, Fn(f.M, ~f.tr, f.checks) }

\* The vectors client code applies operators to.
Vectors ==
  { [k \in 1..n |-> 1] : n \in 1..MaxLen } \cup
  { [k \in 1..n |-> k] : n \in 1..MaxLen }

RECURSIVE Dot(_, _)
Dot(a, b) ==
  IF Len(a) = 0 THEN 0 ELSE a[1] * b[1] + Dot(Tail(a), Tail(b))

\* J * x
MatVec(M, x) == [i \in 1..M.shape[1] |-> Dot(M.rows[i], x)]

\* y * J
MatVecT(M, y) ==
  [j \in 1..M.shape[2] |->
     Dot([i \in 1..M.shape[1] |-> M.rows[i][j]], y)]

\* The outcome of an application: status is "ok" or the exception raised,
\* val the vector returned, log the operator instances whose __mul__ was
\* dispatched (in order), ext the number of calls made into external code.
Outcome(status, val, log, ext) ==
  [status |-> status, val |-> val, log |-> log, ext |-> ext]

\* Calling an external callable on x.  One that does not check its input
\* indexes the entries it needs: extra entries are ignored, missing ones are
\* an IndexError.
CallFn(f, x) ==
  LET M == Mat[f.M]
      need == IF f.tr THEN M.shape[1] ELSE M.shape[2]
      y == IF f.tr THEN MatVecT(M, SubSeq(x, 1, need))
                   ELSE MatVec(M, SubSeq(x, 1, need))
  IN  IF Len(x) = need THEN Outcome("ok", y, <<>>, 1)
      ELSE IF f.checks THEN Outcome("ValueError", <<>>, <<>>, 1)
      ELSE IF Len(x) > need THEN Outcome("ok", y, <<>>, 1)
      ELSE Outcome("IndexError", <<>>, <<>>, 1)

(* ---------------- operator instances ---------------- *)

\* An attribute that has not been assigned.
Unset == [tag |-> "unset", id |-> 0]

\* The multiplication strategy bound to an instance's __mul__: an external
\* callable ("fn"), PysparseLinearOperator._mul / _rmul, or
\* SquaredLinearOperator._mul / _rmul ("sq_mul" / "sq_rmul").
Strategy(kind, fn) == [kind |-> kind, fn |-> fn]

\* LinearOperator.__init__: nargin, nargout and shape; the subclass fills
\* in the rest.
LinearOperatorInit(nargin, nargout) ==
  [kind |-> "LinearOperator", nargin |-> nargin, nargout |-> nargout,
   shape |-> <<nargout, nargin>>, symmetric |-> FALSE, transposed |-> FALSE,
   T |-> Unset, A |-> Unset, mul |-> Strategy("abstract", NoFn)]

\* LinearOperator.get_shape
get_shape(h, i) == h[i].shape

\* A.shape of a constructor argument: a raw matrix or an operator.
ShapeOf(h, v) == IF v.tag = "mat" THEN Mat[v.id].shape ELSE get_shape(h, v.id)

\* The result of a constructor call: the heap afterwards, "ok" or the
\* exception raised, the instance built, the number of constructor calls
\* made (nested ones included) and the deepest nesting reached.
Built(h, self, calls, depth) ==
  [heap |-> h, status |-> "ok", self |-> self, calls |-> calls, depth |-> depth]

Raised(h, exc, calls, depth) ==
  [heap |-> h, status |-> exc, self |-> 0, calls |-> calls, depth |-> depth]

SetT(h, self, v) == [h EXCEPT ![self].T = v]

\* self.T = self
SelfTranspose(self) == Ref(self)

\* A variant that honours symmetric only when no transpose_of was passed.
SymmetricUnlessGiven(symmetric, transpose_of) ==
  symmetric /\ transpose_of = NoneVal

\* `if symmetric:` comes first, whatever else was passed.
SymmetricBranch(symmetric, transpose_of) == symmetric

\* A variant that accepts any object as the transpose.
AnyTransposeSource(transpose_of) == TRUE

\* isinstance(transpose_of, LinearOperator), the test on a given
\* transpose_of.
ValidTransposeSource(transpose_of) == IsLinearOperator(transpose_of)

\* A variant that forgets the operator supplied as transpose.
SuppliedTransposeDropped(transpose_of) == NoneVal

\* self.T = transpose_of
SuppliedTranspose(transpose_of) == transpose_of

\* A variant that leaves self.T unassigned.
NoTransposeUnassigned == Unset

\* self.T = None
NoTranspose == NoneVal

(* ---------------- SimpleLinearOperator.__init__ ---------------- *)

SimpleArgs(nargin, nargout, matvec, matvec_transp, symmetric, transposed, transpose_of) ==
  [nargin |-> nargin, nargout |-> nargout, matvec |-> matvec,
   matvec_transp |-> matvec_transp, symmetric |-> symmetric,
   transposed |-> transposed, transpose_of |-> transpose_of]

\* A variant of the nested call that passes no transpose_of.
SimpleTransposeArgsUnlinked(self, a) ==
  SimpleArgs(a.nargout, a.nargin, a.matvec_transp, a.matvec, FALSE,
             ~a.transposed, NoneVal)

\* The arguments of the nested call that builds the transpose.
SimpleTransposeArgs(self, a) ==
  SimpleArgs(a.nargout, a.nargin, a.matvec_transp, a.matvec, FALSE,
             ~a.transposed, Ref(self))

RECURSIVE SimpleInit(_, _, _)
SimpleInit(h, a, depth) ==
  IF depth > RecursionLimit THEN Raised(h, "RuntimeError", 1, depth)
  ELSE
  LET self == Len(h) + 1
      me == [LinearOperatorInit(a.nargin, a.nargout) EXCEPT
               !.kind = "Simple", !.symmetric = a.symmetric,
               !.transposed = a.transposed,
               !.mul = Strategy("fn", a.matvec)]
      h1 == Append(h, me)
  IN  IF SymmetricBranch(a.symmetric, a.transpose_of)
      THEN Built(SetT(h1, self, SelfTranspose(self)), self, 1, depth)
      ELSE IF a.transpose_of = NoneVal THEN
        IF a.matvec_transp # NoFn THEN
          LET r == SimpleInit(h1, SimpleTransposeArgs(self, a), depth + 1)
          IN  IF r.status = "ok"
              THEN Built(SetT(r.heap, self, Ref(r.self)), self,
                         1 + r.calls, r.depth)
              ELSE Raised(h, r.status, 1 + r.calls, r.depth)
        ELSE Built(SetT(h1, self, NoTranspose), self, 1, depth)
      ELSE IF ValidTransposeSource(a.transpose_of)
        THEN Built(SetT(h1, self, SuppliedTranspose(a.transpose_of)), self, 1, depth)
        ELSE Raised(h, "ValueError", 1, depth)

(* ---------------- PysparseLinearOperator.__init__ ---------------- *)

PysparseArgs(A, symmetric, transposed, transpose_of) ==
  [A |-> A, symmetric |-> symmetric, transposed |-> transposed,
   transpose_of |-> transpose_of]

\* A variant of the nested call that passes no transpose_of.
PysparseTransposeArgsUnlinked(self, a) ==
  PysparseArgs(a.A, FALSE, ~a.transposed, NoneVal)

\* The arguments of the nested call that builds the transpose.
PysparseTransposeArgs(self, a) ==
  PysparseArgs(a.A, FALSE, ~a.transposed, Ref(self))

\* The strategy chosen for __mul__: the matrix's own __rmul__ / __mul__
\* when it has one, else the _rmul / _mul fallback.
PysparseStrategy(A, transposed) ==
  IF transposed
  THEN IF Mat[A].hasRmul THEN Strategy("fn", Fn(A, TRUE, Mat[A].checks))
                         ELSE Strategy("_rmul", NoFn)
  ELSE IF Mat[A].hasMul THEN Strategy("fn", Fn(A, FALSE, Mat[A].checks))
                        ELSE Strategy("_mul", NoFn)

\* The (nargin, nargout) handed to LinearOperator.__init__.
PysparseDims(A, transposed) ==
  LET m == Mat[A].shape[1]
      n == Mat[A].shape[2]
  IN  IF transposed THEN <<m, n>> ELSE <<n, m>>

RECURSIVE PysparseInit(_, _, _)
PysparseInit(h, a, depth) ==
  IF depth > RecursionLimit THEN Raised(h, "RuntimeError", 1, depth)
  ELSE
  LET self == Len(h) + 1
      d == PysparseDims(a.A, a.transposed)
      me == [LinearOperatorInit(d[1], d[2]) EXCEPT
               !.kind = "Pysparse", !.A = MatRef(a.A),
               !.symmetric = a.symmetric, !.transposed = a.transposed,
               !.mul = PysparseStrategy(a.A, a.transposed)]
      h1 == Append(h, me)
  IN  IF SymmetricBranch(a.symmetric, a.transpose_of)
      THEN Built(SetT(h1, self, SelfTranspose(self)), self, 1, depth)
      ELSE IF a.transpose_of = NoneVal THEN
        LET r == PysparseInit(h1, PysparseTransposeArgs(self, a), depth + 1)
        IN  IF r.status = "ok"
            THEN Built(SetT(r.heap, self, Ref(r.self)), self,
                       1 + r.calls, r.depth)
            ELSE Raised(h, r.status, 1 + r.calls, r.depth)
      ELSE IF ValidTransposeSource(a.transpose_of)
        THEN Built(SetT(h1, self, SuppliedTranspose(a.transpose_of)), self, 1, depth)
        ELSE Raised(h, "ValueError", 1, depth)

(* ---------------- SquaredLinearOperator.__init__ ---------------- *)

SquaredArgs(A, transposed) == [A |-> A, transposed |-> transposed]

\* The shape assigned after the base constructor ran: (m, m) or (n, n).
SquaredShape(m, n, transposed) == IF transposed THEN <<m, m>> ELSE <<n, n>>

SquaredInit(h, a, depth) ==
  LET self == Len(h) + 1
      m == ShapeOf(h, a.A)[1]
      n == ShapeOf(h, a.A)[2]
      me == [LinearOperatorInit(n, m) EXCEPT
               !.kind = "Squared", !.transposed = a.transposed,
               !.symmetric = TRUE,
               !.shape = SquaredShape(m, n, a.transposed),
               !.mul = Strategy(IF a.transposed THEN "sq_rmul" ELSE "sq_mul",
                                NoFn),
               !.T = SelfTranspose(self)]
      h1 == Append(h, me)
  IN  IF IsLinearOperator(a.A)
      THEN Built([h1 EXCEPT ![self].A = a.A], self, 1, depth)
      ELSE LET r == PysparseInit(h1, PysparseArgs(a.A.id, FALSE, FALSE, NoneVal),
                                 depth + 1)
           IN  IF r.status = "ok"
               THEN Built([r.heap EXCEPT ![self].A = Ref(r.self)], self,
                          1 + r.calls, r.depth)
               ELSE Raised(h, r.status, 1 + r.calls, r.depth)

(* ---------------- application: __mul__ and __call__ ---------------- *)

\* A variant of the check that lets longer vectors through.
InputShapeAtLeast(x, nargin) == Len(x) >= nargin

\* x.shape == (nargin,)
InputShapeOk(x, nargin) == Len(x) = nargin

\* PysparseLinearOperator._mul: check, allocate Ax, self.A.matvec(x, Ax).
Pysparse_mul(h, i, x) ==
  IF ~InputShapeOk(x, h[i].nargin)
  THEN Outcome("ValueError", <<>>, <<i>>, 0)
  ELSE Outcome("ok", MatVec(Mat[h[i].A.id], x), <<i>>, 1)

\* PysparseLinearOperator._rmul: check, allocate ATy,
\* self.A.matvec_transp(y, ATy).
Pysparse_rmul(h, i, y) ==
  IF ~InputShapeOk(y, h[i].nargin)
  THEN Outcome("ValueError", <<>>, <<i>>, 0)
  ELSE Outcome("ok", MatVecT(Mat[h[i].A.id], y), <<i>>, 1)

\* None * v
MulNone(log, ext) == Outcome("TypeError", <<>>, log, ext)

RECURSIVE Mul(_, _, _)

\* `first * (second * x)` for operators (or None) first and second: the
\* inner product is evaluated before the outer one.
Nested(h, i, first, second, x) ==
  IF second = NoneVal THEN MulNone(<<i>>, 0)
  ELSE LET r1 == Mul(h, second.id, x)
       IN  IF r1.status # "ok"
           THEN Outcome(r1.status, <<>>, <<i>> \o r1.log, r1.ext)
           ELSE IF first = NoneVal
           THEN MulNone(<<i>> \o r1.log, r1.ext)
           ELSE LET r2 == Mul(h, first.id, r1.val)
                IN  Outcome(r2.status, r2.val, <<i>> \o r1.log \o r2.log,
                            r1.ext + r2.ext)

\* SquaredLinearOperator._mul: self.A.T * (self.A * x)
Squared_mul(h, i, x) == Nested(h, i, h[h[i].A.id].T, h[i].A, x)

\* A variant of _rmul that multiplies in the order of _mul.
Squared_rmul_as_mul(h, i, x) == Nested(h, i, h[h[i].A.id].T, h[i].A, x)

\* SquaredLinearOperator._rmul: self.A * (self.A.T * x)
Squared_rmul(h, i, x) == Nested(h, i, h[i].A, h[h[i].A.id].T, x)

\* op * x: the callable bound to the instance's __mul__.
Mul(h, i, x) ==
  LET s == h[i].mul
  IN  CASE s.kind = "fn" ->
             LET r == CallFn(s.fn, x)
             IN  Outcome(r.status, r.val, <<i>>, r.ext)
        [] s.kind = "_mul" -> Pysparse_mul(h, i, x)
        [] s.kind = "_rmul" -> Pysparse_rmul(h, i, x)
        [] s.kind = "sq_mul" -> Squared_mul(h, i, x)
        [] s.kind = "sq_rmul" -> Squared_rmul(h, i, x)
        [] OTHER -> Outcome("NotImplementedError", <<>>, <<i>>, 0)

\* op(x): an alias for __mul__.
Call(h, i, x) == Mul(h, i, x)

(* ---------------- the state machine ---------------- *)

NoArgs ==
  [symmetric |-> FALSE, transposed |-> FALSE, transpose_of |-> NoneVal,
   matvec_transp |-> NoFn, A |-> NoneVal]

\* What the last operation was and how it ended.  For a constructor call:
\* its arguments, the exception raised if any, the instance built, the
\* number of constructor calls made, the deepest nesting, and the number of
\* instances there were before.  For an application of instance self: out
\* is the outcome for each vector x the client may pass.
Last(op, status, self, calls, depth, before, args, out) ==
  [op |-> op, status |-> status, self |-> self, calls |-> calls,
   depth |-> depth, before |-> before, args |-> args, out |-> out]

Init ==
  /\ heap = <<>>
  /\ ncalls = 0
  /\ last = Last("none", "ok", 0, 0, 0, 0, NoArgs, <<>>)

\* The values client code may pass as transpose_of.
TransposeOfValues == {NoneVal, OtherObj} \cup { Ref(i) : i \in 1..Len(heap) }

\* The (nargin, nargout) pairs client code passes along with a callable.
DimsFor(f) ==
  LET M == Mat[f.M]
  IN  IF f.tr THEN { <<M.shape[1], M.shape[2]>> }
              ELSE { <<M.shape[2], M.shape[1]>> }

\* A constructor call ended: on an exception the instance under
\* construction is dropped, so the heap is as before.
Constructed(op, r, args) ==
  /\ ncalls < MaxCalls
  /\ ncalls' = ncalls + 1
  /\ heap' = IF r.status = "ok" THEN r.heap ELSE heap
  /\ last' = Last(op, r.status, r.self, r.calls, r.depth, Len(heap), args,
                  <<>>)

NewSimple ==
  \E f \in UserFns, symmetric \in BOOLEAN,
     transposed \in BOOLEAN, transpose_of \in TransposeOfValues :
    \E d \in DimsFor(f), mt \in TranspFns(f) :
      Constructed("Simple",
        SimpleInit(heap, SimpleArgs(d[1], d[2], f, mt, symmetric, transposed,
                                    transpose_of), 0),
        [NoArgs EXCEPT !.symmetric = symmetric, !.transposed = transposed,
                       !.transpose_of = transpose_of, !.matvec_transp = mt])

NewPysparse ==
  \E A \in DOMAIN Mat, symmetric \in BOOLEAN, transposed \in BOOLEAN,
     transpose_of \in TransposeOfValues :
    Constructed("Pysparse",
      PysparseInit(heap, PysparseArgs(A, symmetric, transposed, transpose_of), 0),
      [NoArgs EXCEPT !.symmetric = symmetric, !.transposed = transposed,
                     !.transpose_of = transpose_of, !.A = MatRef(A)])

NewSquared ==
  \E A \in { MatRef(k) : k \in DOMAIN Mat } \cup { Ref(i) : i \in 1..Len(heap) },
     transposed \in BOOLEAN :
    Constructed("Squared", SquaredInit(heap, SquaredArgs(A, transposed), 0),
      [NoArgs EXCEPT !.transposed = transposed, !.A = A])

Apply ==
  \E i \in 1..Len(heap) :
    /\ last' = Last("apply", "ok", i, 0, 0, Len(heap), NoArgs,
                    [x \in Vectors |-> Call(heap, i, x)])
    /\ UNCHANGED <<heap, ncalls>>

\* Client code reads op.T: an attribute read, which returns what was
\* assigned.
ReadT ==
  \E i \in 1..Len(heap) :
    /\ last' = Last("T", "ok", i, 0, 0, Len(heap), NoArgs, heap[i].T)
    /\ UNCHANGED <<heap, ncalls>>

Next == NewSimple \/ NewPysparse \/ NewSquared \/ Apply \/ ReadT

Spec == Init /\ [][Next]_vars

(* ---------------- properties ---------------- *)

Ops == 1..Len(heap)

\* The transpose of instance i is defined (A.T is not None).
HasT(i) == heap[i].T.tag = "ref"

\* The instance A.T.
TOf(i) == heap[i].T.id

\* The last operation was a constructor call for a non-symmetric
\* SimpleLinearOperator with matvec_transp, or for a non-symmetric
\* PysparseLinearOperator, in which the caller passed no transpose_of.
PairCall ==
  /\ last.op \in {"Simple", "Pysparse"}
  /\ ~last.args.symmetric
  /\ last.args.transpose_of = NoneVal
  /\ last.op = "Simple" => last.args.matvec_transp # NoFn

\* C1: a SimpleLinearOperator built non-symmetric with matvec_transp, and a
\* PysparseLinearOperator built non-symmetric in either orientation, the
\* caller passing no transpose_of, satisfies A.T.T is A: the transpose of
\* its transpose is the very instance A.
C1_TransposeTwiceIsSelf ==
  PairCall =>
    /\ last.status = "ok"
    /\ HasT(last.self)
    /\ TOf(last.self) # last.self
    /\ heap[TOf(last.self)].T = Ref(last.self)

C1_Witness ==
  /\ PairCall
  /\ last.op = "Pysparse"
  /\ last.args.transposed
  /\ last.status = "ok"
  /\ last.before > 0

\* C2: every operator of every variant has shape == (nargout, nargin), and
\* get_shape() returns that pair.
C2_ShapeIsNargoutNargin ==
  \A i \in Ops : get_shape(heap, i) = <<heap[i].nargout, heap[i].nargin>>

\* C3: every operator A whose transpose is defined has
\* A.T.nargin == A.nargout, A.T.nargout == A.nargin and
\* A.T.shape == (A.nargin, A.nargout).
C3_TransposeSwapsDims ==
  \A i \in Ops :
    HasT(i) =>
      /\ heap[TOf(i)].nargin = heap[i].nargout
      /\ heap[TOf(i)].nargout = heap[i].nargin
      /\ get_shape(heap, TOf(i)) = <<heap[i].nargin, heap[i].nargout>>

\* The last operation applied a SquaredLinearOperator whose base operator
\* has a transpose.
SquaredApplied ==
  /\ last.op = "apply"
  /\ heap[last.self].kind = "Squared"
  /\ HasT(heap[last.self].A.id)

\* The input length of a SquaredLinearOperator over a base of shape (m, n):
\* n for A.T * A, m for A * A.T.
SquaredInputLen(S) ==
  LET A == heap[S].A.id
  IN  IF heap[S].transposed THEN heap[A].shape[1] ELSE heap[A].shape[2]

\* The outcome of applying `outer` to the result of applying `inner` to x,
\* as seen from S: one application of inner, then one of outer.
Composed(S, outer, inner, x) ==
  LET r1 == Mul(heap, inner, x)
      r2 == Mul(heap, outer, r1.val)
  IN  IF r1.status # "ok"
      THEN Outcome(r1.status, <<>>, <<S>> \o r1.log, r1.ext)
      ELSE Outcome(r2.status, r2.val, <<S>> \o r1.log \o r2.log,
                   r1.ext + r2.ext)

SymmetricCall ==
  \/ last.op \in {"Simple", "Pysparse"} /\ last.args.symmetric
  \/ last.op = "Squared"

\* The instances the last constructor call created.
Created == (last.before + 1)..Len(heap)

\* C5: for every operator with symmetric true (Simple or Pysparse built
\* with symmetric=True, whatever matvec_transp, transposed or transpose_of
\* is passed, and every SquaredLinearOperator), A.T is A, and no second
\* instance is created for the transpose: a Simple or Pysparse call creates
\* one instance, a Squared call creates besides itself only the wrapper of
\* a raw matrix and that wrapper's transpose.
C5_SymmetricIsSelfTranspose ==
  SymmetricCall =>
    /\ last.status = "ok"
    /\ heap[last.self].symmetric
    /\ heap[last.self].T = Ref(last.self)
    /\ \A j \in Created : j # last.self => heap[j].T # Ref(last.self)
    /\ last.op \in {"Simple", "Pysparse"} =>
         Created = {last.self} /\ last.calls = 1
    /\ last.op = "Squared" =>
         Created = IF IsLinearOperator(last.args.A)
                   THEN {last.self}
                   ELSE {last.self, heap[last.self].A.id,
                         TOf(heap[last.self].A.id)}

C5_Witness ==
  /\ SymmetricCall
  /\ last.op = "Simple"
  /\ last.args.matvec_transp # NoFn
  /\ last.args.transposed
  /\ IsLinearOperator(last.args.transpose_of)
  /\ last.status = "ok"

\* The last operation applied an operator to every vector of Vectors.
Applied == last.op = "apply"

\* C6, as claimed: applying any operator, of any variant and strategy, to
\* a vector whose length differs from its nargin raises a shape-mismatch
\* error (ValueError) and makes no call into the matrix or callback.
C6_MismatchAlwaysRaises ==
  Applied =>
    \A x \in Vectors :
      Len(x) # heap[last.self].nargin =>
        /\ last.out[x].status = "ValueError"

\* C6, amended: a PysparseLinearOperator whose __mul__ is the _mul or _rmul
\* fallback raises ValueError on a vector whose length differs from its
\* nargin, before any call into the matrix; a SimpleLinearOperator and a
\* PysparseLinearOperator that delegates to the matrix's own __mul__ /
\* __rmul__ make no check of their own: the outcome is the callable's.
C6_FallbackRaisesOthersDelegate ==
  Applied =>
    LET me == heap[last.self]
    IN  \A x \in Vectors :
          /\ (me.mul.kind \in {"_mul", "_rmul"} /\ Len(x) # me.nargin) =>
               /\ last.out[x].status = "ValueError"
               /\ last.out[x].ext = 0
               /\ last.out[x].log = <<last.self>>
          /\ (me.mul.kind \in {"_mul", "_rmul"} /\ Len(x) = me.nargin) =>
               /\ last.out[x].status = "ok"
               /\ Len(last.out[x].val) = me.nargout
          /\ me.mul.kind = "fn" =>
               /\ last.out[x].status = CallFn(me.mul.fn, x).status
               /\ last.out[x].ext = 1

C6_Witness ==
  /\ Applied
  /\ heap[last.self].mul.kind = "_rmul"
  /\ \E x \in Vectors : Len(x) > heap[last.self].nargin
  /\ \E x \in Vectors : Len(x) < heap[last.self].nargin

\* Instance i is a SimpleLinearOperator built non-symmetric without a
\* matvec_transp function (and without transpose_of).
SimpleWithoutTranspose(i) ==
  /\ heap[i].kind = "Simple"
  /\ ~heap[i].symmetric
  /\ heap[i].T = NoneVal

\* The last operation queried the transpose of a SimpleLinearOperator that
\* has none: it read A.T, or applied a SquaredLinearOperator built over A.
QueriedMissingTranspose ==
  \/ last.op = "T" /\ SimpleWithoutTranspose(last.self)
  \/ /\ Applied
     /\ heap[last.self].kind = "Squared"
     /\ SimpleWithoutTranspose(heap[last.self].A.id)

\* C7, as claimed: for a SimpleLinearOperator built non-symmetric without
\* matvec_transp, querying the transpose (reading A.T, or applying a
\* SquaredLinearOperator built over A) signals NoTransposeAvailable.
C7_MissingTransposeIsSignalled ==
  QueriedMissingTranspose =>
    /\ last.op = "T" => last.status = "NoTransposeAvailable"
    /\ Applied =>
         \A x \in Vectors : last.out[x].status = "NoTransposeAvailable"

\* C7, amended: for a SimpleLinearOperator built non-symmetric without
\* matvec_transp and without transpose_of, A.T is None; reading A.T returns
\* None and signals nothing; applying a SquaredLinearOperator built over A
\* never returns a result: it raises TypeError where None is multiplied
\* (with transposed=True before A is applied at all, otherwise after A was
\* applied once), unless applying A raised first.
C7_MissingTransposeIsNone ==
  /\ (/\ last.op = "Simple"
      /\ ~last.args.symmetric
      /\ last.args.matvec_transp = NoFn
      /\ last.args.transpose_of = NoneVal) =>
        /\ last.status = "ok"
        /\ heap[last.self].T = NoneVal
  /\ QueriedMissingTranspose =>
       /\ last.op = "T" => (last.status = "ok" /\ last.out = NoneVal)
       /\ Applied =>
            LET S == last.self
                A == heap[S].A.id
            IN  \A x \in Vectors :
                  /\ last.out[x].status # "ok"
                  /\ heap[S].transposed =>
                       /\ last.out[x].status = "TypeError"
                       /\ last.out[x].log = <<S>>
                       /\ last.out[x].ext = 0
                  /\ ~heap[S].transposed =>
                       /\ last.out[x].log = <<S, A>>
                       /\ last.out[x].status =
                            IF Mul(heap, A, x).status = "ok"
                            THEN "TypeError"
                            ELSE Mul(heap, A, x).status

C7_Witness ==
  /\ QueriedMissingTranspose
  /\ Applied
  /\ ~heap[last.self].transposed
  /\ \E x \in Vectors : last.out[x].status = "TypeError"
  /\ \E x \in Vectors : last.out[x].status = "IndexError"

\* The last operation was a SimpleLinearOperator or PysparseLinearOperator
\* constructor call whose transpose_of was an object that is not a
\* LinearOperator (and not None).
InvalidTransposeOfCall ==
  /\ last.op \in {"Simple", "Pysparse"}
  /\ last.args.transpose_of = OtherObj

\* No operator's transpose is the object that is not a LinearOperator.
NothingLinkedToInvalid == \A i \in Ops : heap[i].T # OtherObj

\* C8, as claimed: constructing a Simple or Pysparse operator with a
\* transpose_of that is not a LinearOperator fails with an
\* invalid-transpose-source error (ValueError) for every combination of
\* the other arguments, symmetric=True included, and no operator is linked
\* to the invalid object.
C8_InvalidTransposeOfAlwaysFails ==
  /\ InvalidTransposeOfCall =>
       /\ last.status = "ValueError"
       /\ Len(heap) = last.before
  /\ NothingLinkedToInvalid

\* C8, amended: with symmetric=False the construction fails with
\* ValueError, for every combination of the other arguments, and no
\* instance results; with symmetric=True transpose_of is never looked at
\* and the construction succeeds with A.T is A.  Either way no operator is
\* linked to the invalid object.
C8_InvalidTransposeOfFailsUnlessSymmetric ==
  /\ InvalidTransposeOfCall =>
       IF last.args.symmetric
       THEN /\ last.status = "ok"
            /\ heap[last.self].T = Ref(last.self)
       ELSE /\ last.status = "ValueError"
            /\ Len(heap) = last.before
            /\ last.calls = 1
  /\ NothingLinkedToInvalid

C8_Witness ==
  /\ InvalidTransposeOfCall
  /\ ~last.args.symmetric
  /\ last.op = "Pysparse"
  /\ last.args.transposed
  /\ last.status = "ValueError"
  /\ last.before > 0

C10_TransposeIsInvolutionEverywhere ==
  \A i \in Ops : HasT(i) => heap[TOf(i)].T = Ref(i)

\* The step is a constructor call in which the caller passed an already
\* constructed operator as transpose_of and symmetric was false.
SuppliedTransposeStep ==
  /\ last'.op \in {"Simple", "Pysparse"}
  /\ ~last'.args.symmetric
  /\ IsLinearOperator(last'.args.transpose_of)

\* What C10, amended, asks of one step: a constructor call never changes
\* an existing operator, and
\* every instance a call creates satisfies A.T.T is A when its transpose is
\* defined, except the one built non-symmetric with a caller-supplied
\* transpose_of=B: for it A.T is B, and B.T is what it was before the call.
C10_StepLinks ==
  (heap' # heap) =>
    /\ Len(heap') > Len(heap)
    /\ \A i \in 1..Len(heap) : heap'[i] = heap[i]
    /\ \A i \in (Len(heap) + 1)..Len(heap') :
         IF SuppliedTransposeStep /\ i = last'.self
         THEN /\ heap'[i].T = last'.args.transpose_of
              /\ heap'[heap'[i].T.id].T = heap[heap'[i].T.id].T
              /\ heap'[heap'[i].T.id].T # Ref(i)
         ELSE heap'[i].T.tag = "ref" => heap'[heap'[i].T.id].T = Ref(i)

\* C10, amended, as a property of every step: each constructor call links
\* the instances it creates as C10_StepLinks says and leaves the others as
\* they were.
C10_TransposeLinksStepwise == [][C10_StepLinks]_vars

C10_Witness ==
  /\ last.op \in {"Simple", "Pysparse"}
  /\ ~last.args.symmetric
  /\ IsLinearOperator(last.args.transpose_of)
  /\ last.status = "ok"
  /\ HasT(last.args.transpose_of.id)
  /\ TOf(last.args.transpose_of.id) # last.args.transpose_of.id
  /\ heap[last.self].T = last.args.transpose_of

====
